---- MODULE Spec2Model ----
(***************************************************************************)
(* Model of alx/weekly_news, src/main.py: the LinkAce -> LLM -> Hugo       *)
(* weekly digest pipeline.                                                 *)
(*                                                                         *)
(* Strings whose content the code inspects (LLM output, reviewer input,    *)
(* the approval sentinel) are sequences of characters/tokens, " " being    *)
(* whitespace.  Times are whole hours on the UTC time line.  Exceptions    *)
(* are modelled by their Python class name; "none" means normal return.    *)
(***************************************************************************)
EXTENDS Integers, Sequences, FiniteSets, TLC

\* ---------------------------------------------------------------- bounds
\* longest list of records in one bookmark response
MaxLinks == 2
\* longest text (in characters) returned by the completion service
MaxLen == 2
\* number of save_content calls followed in SpecPublish
MaxPublishes == 2

\* --------------------------------------------------------------- strings
Char == {"a", " "}

StrOfLen(n) == [1..n -> Char]

Str == UNION {StrOfLen(n) : n \in 0..MaxLen}

RECURSIVE LStrip(_)
LStrip(s) == IF s # <<>> /\ Head(s) = " " THEN LStrip(Tail(s)) ELSE s

RECURSIVE RStrip(_)
RStrip(s) ==
  IF s # <<>> /\ s[Len(s)] = " " THEN RStrip(SubSeq(s, 1, Len(s) - 1)) ELSE s

\* str.strip()
Strip(s) == RStrip(LStrip(s))

\* ------------------------------------------------------------ exceptions
NoExc == "none"

\* isinstance(exc, cls) for the classes the handlers name
IsInstance(exc, cls) == cls = "Exception" \/ exc = cls

\* does a try statement with these except clauses catch exc?
Caught(exc, handlers) == \E h \in handlers : IsInstance(exc, h)

\* ------------------------------------------------------------------ time
\* timedelta(days=7), in hours
WeekHours == 7 * 24

\* datetime.now() of the run, in hours
T0 == 10 * 24

\* created_at strings: a wall-clock reading followed by a zone designator
ZoneDesignators == {"Z", "+02:00", "-02:00"}

\* .replace('Z', '+00:00')
ReplaceZ(tz) == IF tz = "Z" THEN "+00:00" ELSE tz

\* hours east of UTC denoted by a numeric designator
OffsetHours(tz) ==
  CASE tz = "+00:00" -> 0
    [] tz = "+02:00" -> 2
    [] tz = "-02:00" -> 0 - 2

\* datetime.fromisoformat: an aware datetime (wall reading, utcoffset)
FromIsoFormat(s) == [wall |-> s.wall, utcoffset |-> OffsetHours(ReplaceZ(s.tz))]

\* datetime.replace(tzinfo=timezone.utc): the wall reading is kept
ReplaceTzinfoUTC(dt) == [dt EXCEPT !.utcoffset = 0]

\* aware datetimes compare by their UTC instant
Instant(dt) == dt.wall - dt.utcoffset

\* line 66
ParseCreatedAt(s) == ReplaceTzinfoUTC(FromIsoFormat(s))

\* line 69
InPastWeek(s, now) == Instant(ParseCreatedAt(s)) >= now - WeekHours

\* ------------------------------------------------------ bookmark service
\* shapes of one element of the response's data array
RecordShapes ==
  {"ok", "no_id", "no_url", "no_title", "no_created_at", "bad_created_at",
   "bad_tags"}

TimedShapes == RecordShapes \ {"no_created_at", "bad_created_at"}

\* wall-clock readings around the cutoff of a fetch at T0
Walls == {T0 - WeekHours + d : d \in {0 - 1, 0, 1}}

CreatedAts == [wall : Walls, tz : ZoneDesignators]

NoCreatedAt == [wall |-> 0, tz |-> "Z"]

RawRecords ==
  [shape : TimedShapes, created_at : CreatedAts]
    \cup [shape : {"no_created_at", "bad_created_at"}, created_at : {NoCreatedAt}]

RawData == UNION {[1..n -> RawRecords] : n \in 0..MaxLinks}

BookmarkFailures ==
  {"connection_error", "http_error", "invalid_json", "not_object"}

BookmarkResponses ==
  [kind : BookmarkFailures, data : {<<>>}] \cup [kind : {"ok"}, data : RawData]

\* response.json() on an undecodable body raises requests' JSONDecodeError,
\* a RequestException from requests 2.27 on and a plain ValueError before
JsonDecodeExcs == {"RequestException", "ValueError"}

\* Link(...) built from the i-th record (lines 70-78); the LinkAce id is the
\* record's position, url/title/description are copied and not inspected
MakeLink(rec, i) == [id |-> i, created_at |-> rec.created_at, tags |-> <<"tag">>]

\* one iteration of the loop of lines 64-78: the exception it raises
RecordExc(rec, now) ==
  CASE rec.shape = "no_created_at" -> "KeyError"
    [] rec.shape = "bad_created_at" -> "ValueError"
    [] ~InPastWeek(rec.created_at, now) -> NoExc
    [] rec.shape = "bad_tags" -> "TypeError"
    [] rec.shape \in {"no_id", "no_url", "no_title"} -> "KeyError"
    [] OTHER -> NoExc

\* lines 63-78: the loop from record i on, acc being the links so far
RECURSIVE CollectLinks(_, _, _, _)
CollectLinks(data, i, acc, now) ==
  IF i > Len(data) THEN [exc |-> NoExc, links |-> acc]
  ELSE IF RecordExc(data[i], now) # NoExc
    THEN [exc |-> RecordExc(data[i], now), links |-> <<>>]
  ELSE IF InPastWeek(data[i].created_at, now)
    THEN CollectLinks(data, i + 1, Append(acc, MakeLink(data[i], i)), now)
  ELSE CollectLinks(data, i + 1, acc, now)

\* lines 59-81: the body of the try statement
FetchBody(resp, decodeExc, now) ==
  CASE resp.kind \in {"connection_error", "http_error"} ->
         [exc |-> "RequestException", links |-> <<>>]
    [] resp.kind = "invalid_json" -> [exc |-> decodeExc, links |-> <<>>]
    [] resp.kind = "not_object" -> [exc |-> "AttributeError", links |-> <<>>]
    [] OTHER -> CollectLinks(resp.data, 1, <<>>, now)

\* the try statement without its except clause
LinkAceHandlers_Missing == {}

\* line 83
LinkAceHandlers == {"RequestException"}

\* LinkAceClient.get_weekly_links
get_weekly_links(resp, decodeExc, now) ==
  LET r == FetchBody(resp, decodeExc, now) IN
    IF r.exc # NoExc /\ Caught(r.exc, LinkAceHandlers)
      THEN [exc |-> NoExc, links |-> <<>>]
      ELSE r

\* ---------------------------------------------------- completion service
CompletionFailures ==
  {"timeout", "connection_error", "http_error", "invalid_json", "null_body",
   "no_choices", "empty_choices", "no_message", "no_content", "null_content"}

NoCompletion == [kind |-> "none", content |-> <<>>]

CompletionResponses ==
  [kind : CompletionFailures, content : {<<>>}]
    \cup [kind : {"content"}, content : Str]

\* lines 116-134: the body of the try statement
CompletionBody(resp, decodeExc) ==
  CASE resp.kind \in {"timeout", "connection_error", "http_error"} ->
         [exc |-> "RequestException", value |-> <<>>]
    [] resp.kind = "invalid_json" -> [exc |-> decodeExc, value |-> <<>>]
    [] resp.kind = "null_body" -> [exc |-> "TypeError", value |-> <<>>]
    [] resp.kind \in {"no_choices", "empty_choices"} ->
         [exc |-> "ValueError", value |-> <<>>]
    [] resp.kind \in {"no_message", "no_content"} ->
         [exc |-> "KeyError", value |-> <<>>]
    [] resp.kind = "null_content" -> [exc |-> "AttributeError", value |-> <<>>]
    [] OTHER ->
         IF Strip(resp.content) = <<>>
           THEN [exc |-> "ValueError", value |-> <<>>]
           ELSE [exc |-> NoExc, value |-> resp.content]

\* the except clauses without the final catch-all of line 151
LLMHandlers_NoCatchAll == {"RequestException", "KeyError", "ValueError"}

\* lines 136, 142, 147, 151
LLMHandlers == {"RequestException", "KeyError", "ValueError", "Exception"}

\* OpenRouterClient.call_llm
call_llm(resp, decodeExc) ==
  LET r == CompletionBody(resp, decodeExc) IN
    IF r.exc # NoExc /\ Caught(r.exc, LLMHandlers)
      THEN [exc |-> NoExc, value |-> <<>>]
      ELSE r

\* --------------------------------------------------------------- reviewer
SENTINEL == <<"Content", " ", "approved", " ", "as-is">>

\* lines typed by the reviewer
RawInputs ==
  {<<>>, <<" ">>, <<" ", " ">>, <<"x">>, <<" ", "x", " ">>, SENTINEL,
   <<" ">> \o SENTINEL}

\* ContentProcessor.get_editor_feedback, lines 215-216
get_editor_feedback(raw) == IF Strip(raw) # <<>> THEN Strip(raw) ELSE SENTINEL

\* polish_content calling the completion service whatever the feedback
NeedsRevision_Always(fb) == TRUE

\* line 220
NeedsRevision(fb) == fb # SENTINEL

\* polish_content falling back to the draft when the revision is empty
PolishReturn_Fallback(content, revised) ==
  IF revised = <<>> THEN content ELSE revised

\* line 242
PolishReturn(content, revised) == revised

\* --------------------------------------------------------------- site writer
ContentPath == "./content/posts"

Prefixes == {"weekly-links", "news"}

\* strftime('%Y-%m-%d')
DateStr(t) == t \div 24

\* lines 278-281
SavePath(dir, t, pfx) == [dir |-> dir, name |-> <<DateStr(t), "-", pfx, ".md">>]

\* lines 284-296 and generate_frontmatter
FullContent(content, links_count, t) ==
  [title |-> DateStr(t), date |-> t,
   tags |-> <<"weekly-digest", "curated-links", "reading-list">>,
   count |-> links_count, digest |-> content]

\* open(filepath, 'x'): an existing file is kept
WriteFile_Exclusive(files, path, data) ==
  [p \in DOMAIN files \cup {path} |-> IF p \in DOMAIN files THEN files[p] ELSE data]

\* lines 299-300: open(filepath, 'w') and write
WriteFile(files, path, data) ==
  [p \in DOMAIN files \cup {path} |-> IF p = path THEN data ELSE files[p]]

NoFiles == [p \in {} |-> 0]

\* save_content's arguments in SpecPublish
PublishTexts == {s \in Str : Len(s) <= 1}

PublishCounts == {1, MaxLinks}

\* ------------------------------------------------------------------ main
\* main treating an empty list of links as links to digest
NoLinks_Ignored(l) == FALSE

\* line 319: not links
NoLinks(l) == l = <<>>

\* main asking for the draft again when it comes back empty
AfterCompose_Retry(content) == IF content = <<>> THEN "fetched" ELSE "structured"

\* lines 328-330: not structured_content
AfterCompose(content) == IF content = <<>> THEN "returned" ELSE "structured"

\* requests and other effects of a run, in the order they happen
GET == <<"GET", "links">>
POST(temperature) == <<"POST", temperature>>
INPUT == <<"input", "feedback">>
WRITE == <<"write", "file">>

NoFetch ==
  [resp |-> [kind |-> "none", data |-> <<>>],
   result |-> [exc |-> NoExc, links |-> <<>>]]

NoLLM == [resp |-> NoCompletion, result |-> [exc |-> NoExc, value |-> <<>>]]

NoInput == <<"(no input)">>

\* ContentProcessor.polish_content
polish_content(content, fb, resp, decodeExc) ==
  IF NeedsRevision(fb)
    THEN LET r == call_llm(resp, decodeExc) IN
           [exc |-> r.exc, value |-> PolishReturn(content, r.value), calls |-> 1,
            io |-> [resp |-> resp, result |-> r]]
    ELSE [exc |-> NoExc, value |-> content, calls |-> 0, io |-> NoLLM]

VARIABLES
  pc,                 \* position of main
  now,                \* datetime.now()
  prefix,             \* OUTPUT_FILENAME_PREFIX
  links,              \* main's links
  structured_content, \* main's structured_content
  feedback,           \* main's feedback
  final_content,      \* main's final_content
  raised,             \* class of the exception main re-raised, or "none"
  fs,                 \* files under the content directory, by path
  trace,              \* requests, prompts for input and writes of the run
  fetch_io,           \* bookmark response and result of the call just made
  llm_io,             \* completion response and result of the call just made
  raw_input,          \* line typed at the prompt just answered
  pubs                \* completed save_content calls: arguments and path

vars ==
  <<pc, now, prefix, links, structured_content, feedback, final_content,
    raised, fs, trace, fetch_io, llm_io, raw_input, pubs>>

Init ==
  /\ pc = "start"
  /\ now = T0
  /\ prefix \in Prefixes
  /\ links = <<>>
  /\ structured_content = <<>>
  /\ feedback = <<>>
  /\ final_content = <<>>
  /\ raised = NoExc
  /\ fs = NoFiles
  /\ trace = <<>>
  /\ fetch_io = NoFetch
  /\ llm_io = NoLLM
  /\ raw_input = NoInput
  /\ pubs = <<>>

\* lines 316-323: get_weekly_links and the check of its result
Fetch ==
  /\ pc = "start"
  /\ \E resp \in BookmarkResponses, d \in JsonDecodeExcs :
       LET r == get_weekly_links(resp, d, now) IN
         /\ fetch_io' = [resp |-> resp, result |-> r]
         /\ links' = r.links
         /\ raised' = r.exc
         /\ pc' = IF r.exc # NoExc THEN "raised"
                  ELSE IF NoLinks(r.links) THEN "returned" ELSE "fetched"
  /\ trace' = Append(trace, GET)
  /\ UNCHANGED <<now, prefix, structured_content, feedback, final_content, fs,
                 llm_io, raw_input, pubs>>

\* lines 325-330: structure_links and the check of its result
Compose ==
  /\ pc = "fetched"
  /\ \E resp \in CompletionResponses, d \in JsonDecodeExcs :
       LET r == call_llm(resp, d) IN
         /\ llm_io' = [resp |-> resp, result |-> r]
         /\ structured_content' = r.value
         /\ raised' = r.exc
         /\ pc' = IF r.exc # NoExc THEN "raised" ELSE AfterCompose(r.value)
  /\ trace' = Append(trace, POST("0.7"))
  /\ fetch_io' = NoFetch
  /\ UNCHANGED <<now, prefix, links, feedback, final_content, fs, raw_input, pubs>>

\* lines 332-333: get_editor_feedback
Review ==
  /\ pc = "structured"
  /\ \E raw \in RawInputs :
       /\ raw_input' = raw
       /\ feedback' = get_editor_feedback(raw)
  /\ trace' = Append(trace, INPUT)
  /\ llm_io' = NoLLM
  /\ pc' = "reviewed"
  /\ UNCHANGED <<now, prefix, links, structured_content, final_content, raised,
                 fs, fetch_io, pubs>>

\* lines 335-336: polish_content
Polish ==
  /\ pc = "reviewed"
  /\ \E resp \in CompletionResponses, d \in JsonDecodeExcs :
       LET r == polish_content(structured_content, feedback, resp, d) IN
         /\ llm_io' = r.io
         /\ final_content' = r.value
         /\ raised' = r.exc
         /\ pc' = IF r.exc # NoExc THEN "raised" ELSE "polished"
         /\ trace' = IF r.calls = 1 THEN Append(trace, POST("0.5")) ELSE trace
  /\ raw_input' = NoInput
  /\ UNCHANGED <<now, prefix, links, structured_content, feedback, fs, fetch_io,
                 pubs>>

\* HugoContentGenerator.save_content; ok: whether open and write succeed
save_content(content, links_count, ok) ==
  LET path == SavePath(ContentPath, now, prefix) IN
    /\ fs' = IF ok
               THEN WriteFile(fs, path, FullContent(content, links_count, now))
               ELSE fs
    /\ pubs' = IF ok
                 THEN Append(pubs, [date |-> DateStr(now), prefix |-> prefix,
                                    dir |-> ContentPath, content |-> content,
                                    count |-> links_count, path |-> path])
                 ELSE pubs

\* lines 338-339: save_content
Save ==
  /\ pc = "polished"
  /\ \E ok \in BOOLEAN :
       /\ save_content(final_content, Len(links), ok)
       /\ pc' = IF ok THEN "returned" ELSE "raised"
       /\ raised' = IF ok THEN NoExc ELSE "OSError"
  /\ trace' = Append(trace, WRITE)
  /\ llm_io' = NoLLM
  /\ UNCHANGED <<now, prefix, links, structured_content, feedback, final_content,
                 fetch_io, raw_input>>

Next == Fetch \/ Compose \/ Review \/ Polish \/ Save

Spec == Init /\ [][Next]_vars

\* ------------------------------------------- polish_content on its own
FeedbackArgs ==
  {get_editor_feedback(raw) : raw \in RawInputs} \cup {<<>>, <<" ">> \o SENTINEL}

InitPolish ==
  /\ pc = "reviewed"
  /\ now = T0
  /\ prefix \in Prefixes
  /\ links = <<>>
  /\ structured_content \in Str
  /\ feedback \in FeedbackArgs
  /\ final_content = <<>>
  /\ raised = NoExc
  /\ fs = NoFiles
  /\ trace = <<>>
  /\ fetch_io = NoFetch
  /\ llm_io = NoLLM
  /\ raw_input = NoInput
  /\ pubs = <<>>

NextPolish == Polish

SpecPolish == InitPolish /\ [][NextPolish]_vars

\* ---------------------------------------------- save_content on its own
LastDay == T0 + 24

InitPublish ==
  /\ pc = "publish"
  /\ now = T0
  /\ prefix \in Prefixes
  /\ links = <<>>
  /\ structured_content = <<>>
  /\ feedback = <<>>
  /\ final_content = <<>>
  /\ raised = NoExc
  /\ fs = NoFiles
  /\ trace = <<>>
  /\ fetch_io = NoFetch
  /\ llm_io = NoLLM
  /\ raw_input = NoInput
  /\ pubs = <<>>

\* one call of save_content
Publish ==
  /\ pc = "publish"
  /\ Len(pubs) < MaxPublishes
  /\ \E content \in PublishTexts, n \in PublishCounts, ok \in BOOLEAN :
       save_content(content, n, ok)
  /\ UNCHANGED <<pc, now, prefix, links, structured_content, feedback,
                 final_content, raised, trace, fetch_io, llm_io, raw_input>>

\* the date changes between two calls
Tomorrow ==
  /\ pc = "publish"
  /\ now < LastDay
  /\ now' = now + 24
  /\ UNCHANGED <<pc, prefix, links, structured_content, feedback, final_content,
                 raised, fs, trace, fetch_io, llm_io, raw_input, pubs>>

\* OUTPUT_FILENAME_PREFIX changes between two calls
Reconfigure ==
  /\ pc = "publish"
  /\ prefix' \in Prefixes \ {prefix}
  /\ UNCHANGED <<pc, now, links, structured_content, feedback, final_content,
                 raised, fs, trace, fetch_io, llm_io, raw_input, pubs>>

NextPublish == Publish \/ Tomorrow \/ Reconfigure

SpecPublish == InitPublish /\ [][NextPublish]_vars

\* ======================================================== properties
Terminal == {"returned", "raised"}

Posts == {i \in DOMAIN trace : trace[i][1] = "POST"}

Wrote == \E i \in DOMAIN trace : trace[i] = WRITE

Cutoff == now - WeekHours

\* the instant a created_at string denotes, read as ISO-8601 with its offset
DenotedInstant(s) == s.wall - OffsetHours(ReplaceZ(s.tz))

HasCreatedAt(rec) == rec.shape \notin {"no_created_at", "bad_created_at"}

\* the malformed bodies C2 lists
Malformed(resp) ==
  \/ resp.kind = "invalid_json"
  \/ resp.kind = "ok" /\ \E i \in DOMAIN resp.data : resp.data[i].shape # "ok"

\* C1: every link get_weekly_links returns was created, as an instant on the
\* UTC time line denoted by its created_at string (Z or numeric offset), no
\* earlier than fetch time minus 7 days, and every record of the response
\* created earlier than that is left out of the result.
C1_ReturnedLinksWithinWeek ==
  (fetch_io.resp.kind = "ok" /\ fetch_io.result.exc = NoExc) =>
    /\ \A k \in DOMAIN links : DenotedInstant(links[k].created_at) >= Cutoff
    /\ \A i \in DOMAIN fetch_io.resp.data :
         (/\ HasCreatedAt(fetch_io.resp.data[i])
          /\ DenotedInstant(fetch_io.resp.data[i].created_at) < Cutoff)
           => \A k \in DOMAIN links : links[k].id # i

\* C2: a success response with a malformed body (undecodable JSON, a record
\* lacking id/url/title/created_at, a created_at that is not ISO-8601, tags
\* that are not a list) makes get_weekly_links return the empty sequence
\* without raising.
C2_MalformedBodyGivesEmpty ==
  Malformed(fetch_io.resp) =>
    /\ fetch_io.result = [exc |-> NoExc, links |-> <<>>]
    /\ raised = NoExc

\* C3: an empty digest, from the first pass or from the revision pass, is
\* never handed to save_content: a run that wrote (or tried to write) a file
\* has a non-empty final text, and every file written embeds a non-empty
\* digest.
C3_EmptyDigestNeverPublished ==
  /\ Wrote => final_content # <<>>
  /\ \A p \in DOMAIN fs : fs[p].digest # <<>>

\* C4: call_llm never raises; on every failure of the request or of the
\* response's structure (timeout, transport error, non-2xx, undecodable or
\* null body, no or empty choices, missing message/content, null content,
\* content blank after trimming) it returns the empty string, and it returns
\* a non-empty string only for a first choice whose content is non-blank
\* after trimming, and then that content unmodified.
C4_CallLlmNeverRaises ==
  llm_io.resp.kind # "none" =>
    /\ llm_io.result.exc = NoExc
    /\ raised = NoExc
    /\ pc # "raised"
    /\ (llm_io.resp.kind \in CompletionFailures \/ Strip(llm_io.resp.content) = <<>>)
         => llm_io.result.value = <<>>
    /\ llm_io.result.value # <<>> =>
         /\ llm_io.resp.kind = "content"
         /\ Strip(llm_io.resp.content) # <<>>
         /\ llm_io.result.value = llm_io.resp.content

C4_Witness ==
  /\ llm_io.resp.kind = "null_content"
  /\ llm_io.result = [exc |-> NoExc, value |-> <<>>]
  /\ pc = "returned"

\* C5: when the bookmark request ends in a non-2xx status or a network
\* error, get_weekly_links returns the empty sequence without raising and
\* main returns having made no completion call, asked for no feedback and
\* written no file.
C5_FetchFailureStopsRun ==
  fetch_io.resp.kind \in {"connection_error", "http_error"} =>
    /\ fetch_io.result = [exc |-> NoExc, links |-> <<>>]
    /\ links = <<>>
    /\ pc = "returned"
    /\ raised = NoExc
    /\ trace = <<GET>>
    /\ fs = NoFiles

C5_Witness ==
  /\ fetch_io.resp.kind = "http_error"
  /\ pc = "returned"
  /\ trace = <<GET>>

\* C6: polish_content with the sentinel feedback returns the content
\* unchanged without a completion call, for every content; blank reviewer
\* input becomes the sentinel; so a run whose feedback is the sentinel makes
\* exactly one completion call and the file it writes holds the first draft
\* verbatim.
C6_ApprovedDraftPublishedVerbatim ==
  /\ (pc = "reviewed" /\ feedback = SENTINEL) =>
       \A c \in Str, resp \in CompletionResponses, d \in JsonDecodeExcs :
         LET r == polish_content(c, feedback, resp, d) IN
           r.value = c /\ r.calls = 0 /\ r.exc = NoExc
  /\ (raw_input # NoInput /\ Strip(raw_input) = <<>>) => feedback = SENTINEL
  /\ ((pc = "polished" \/ Wrote) /\ feedback = SENTINEL)
       => /\ final_content = structured_content
          /\ Cardinality(Posts) = 1
          /\ trace[2] = POST("0.7")
  /\ (pc = "returned" /\ Wrote /\ feedback = SENTINEL)
       => /\ DOMAIN fs # {}
          /\ \A p \in DOMAIN fs : fs[p].digest = structured_content

C6_Witness ==
  /\ pc = "returned"
  /\ Wrote
  /\ feedback = SENTINEL
  /\ structured_content = <<" ", "a">>
  /\ \E p \in DOMAIN fs : fs[p].digest = <<" ", "a">>
  /\ Cardinality(Posts) = 1

\* C7: polish_content with any feedback other than the sentinel makes
\* exactly one completion call, at temperature 0.5, and returns that call's
\* result, the empty string included; it never returns the content it was
\* given in place of an empty result.
C7_RevisionReturnsCompletion ==
  (pc = "polished" /\ feedback # SENTINEL) =>
    /\ trace = <<POST("0.5")>>
    /\ llm_io.resp.kind # "none"
    /\ final_content = llm_io.result.value
    /\ (llm_io.resp.kind \in CompletionFailures) => final_content = <<>>

C7_Witness ==
  /\ pc = "polished"
  /\ feedback = <<"x">>
  /\ structured_content = <<"a">>
  /\ llm_io.resp.kind = "timeout"
  /\ final_content = <<>>

\* C8: a run whose get_weekly_links returned no records (empty response, all
\* records older than the window, or a degraded failure) makes no completion
\* call, never prompts for feedback, writes no file and returns without
\* raising.
C8_NoLinksStopsRun ==
  (pc # "start" /\ raised = NoExc /\ links = <<>>) =>
    /\ pc = "returned"
    /\ trace = <<GET>>
    /\ fs = NoFiles

C8_Witness ==
  /\ pc = "returned"
  /\ fetch_io.resp.kind = "ok"
  /\ Len(fetch_io.resp.data) = MaxLinks
  /\ \A i \in DOMAIN fetch_io.resp.data :
       /\ fetch_io.resp.data[i].shape = "ok"
       /\ DenotedInstant(fetch_io.resp.data[i].created_at) < Cutoff
  /\ links = <<>>
  /\ trace = <<GET>>

\* C9: the path save_content writes depends only on the date, the prefix and
\* the directory: two calls on the same day with the same prefix return the
\* same path whatever the text and the count, and each path holds exactly
\* the content of the latest call that wrote it; no other file exists.
C9_PublishPathDeterministic ==
  /\ \A i, j \in DOMAIN pubs :
       (/\ pubs[i].date = pubs[j].date
        /\ pubs[i].prefix = pubs[j].prefix
        /\ pubs[i].dir = pubs[j].dir) => pubs[i].path = pubs[j].path
  /\ DOMAIN fs = {pubs[i].path : i \in DOMAIN pubs}
  /\ \A i \in DOMAIN pubs :
       (\A j \in DOMAIN pubs : j > i => pubs[j].path # pubs[i].path) =>
         /\ fs[pubs[i].path].digest = pubs[i].content
         /\ fs[pubs[i].path].count = pubs[i].count

C9_Witness ==
  /\ Len(pubs) >= 2
  /\ pubs[1].date = pubs[2].date
  /\ pubs[1].prefix = pubs[2].prefix
  /\ pubs[1].content # pubs[2].content
  /\ pubs[1].count # pubs[2].count
  /\ pubs[1].path = pubs[2].path
  /\ Cardinality(DOMAIN fs) = 1
  /\ fs[pubs[2].path].digest = pubs[2].content

IsPrefix(s, t) == Len(s) <= Len(t) /\ s = SubSeq(t, 1, Len(s))

RunWithRevision == <<GET, POST("0.7"), INPUT, POST("0.5"), WRITE>>

RunWithoutRevision == <<GET, POST("0.7"), INPUT, WRITE>>

\* C10: the effects of a run occur in the order fetch, first completion
\* call, feedback prompt, optional second completion call, file write, each
\* at most once and nothing repeated after a failure; the write, when it
\* happens, is the last effect and main has then ended.
C10_StagesInOrderOnce ==
  /\ IsPrefix(trace, RunWithRevision) \/ IsPrefix(trace, RunWithoutRevision)
  /\ Wrote => (trace[Len(trace)] = WRITE /\ pc \in Terminal)
  /\ (pc = "start") <=> (trace = <<>>)

C10_Witness ==
  /\ trace = RunWithRevision
  /\ pc = "returned"

====
